---- MODULE Spec2Model ----
(***************************************************************************)
(* Model of iqseq_utils.py: the trie index builders                        *)
(* (construct_simple_trie, construct_complex_trie), the exact substring    *)
(* collapser (process_exact_substring), the approximate clusterer          *)
(* (process_similar) and the bin classifier (process_similar_matrix).      *)
(*                                                                         *)
(* A sequence is a tuple of one-character strings.  A Counter is a         *)
(* function from its keys to integers; a missing key reads as 0 and an     *)
(* assignment to a missing key adds it, as collections.Counter does.       *)
(***************************************************************************)
EXTENDS Integers, Sequences, FiniteSets, TLC

VARIABLES
    mode,      \* which workflow runs: "exact", "similar" or "matrix"
    pc,        \* position in the running function
    input,     \* the table handed to the workflow (the sample table in "matrix")
    counter,   \* the table the process_* function reads and writes
    bins,      \* the bin table of process_similar_matrix
    n,         \* mismatch budget
    lengths,   \* construct_complex_trie: the window lengths (lengths=None)
    tseqs,     \* construct_complex_trie: seqs after the sort
    t,         \* the trie: key -> entry
    si, li, ci,\* construct_complex_trie: loop positions (seq, length, window)
    seqs,      \* process_*: seqs after the sort
    i,         \* process_*: number of sequences already handled
    hits,      \* the elements of the list t.get_approximate(seq, n) returned
    seen,      \* unique_everseen: keys already yielded for the current query
    cur,       \* loop variables (k, v, dist) of the match being handled
    mi,        \* process_exact_substring: position in triefind.find's list
    round      \* process_exact_substring: 1 = first run, 2 = run on its own output

vars == <<mode, pc, input, counter, bins, n, lengths, tseqs, t,
          si, li, ci, seqs, i, hits, seen, cur, mi, round>>

----------------------------------------------------------------------------
(* Bounds of the model *)

Alphabet == {"A", "G"}
MaxLen == 3
MaxKeys == 2
MaxCount == 2
MaxN == 2
MaxSamples == 1

----------------------------------------------------------------------------
(* Sequences, tables *)

Seqs == UNION {[1..l -> Alphabet] : l \in 1..MaxLen}

Range(f) == {f[x] : x \in DOMAIN f}

KeySets == {{}} \cup {Range(f) : f \in [1..MaxKeys -> Seqs]}

AAAA == <<"A", "A", "A", "A">>
AAAAGG == <<"A", "A", "A", "A", "G", "G">>
TTTT == <<"T", "T", "T", "T">>

\* the table of the concrete scenario: {AAAA: 3, AAAAGG: 2, TTTT: 5}
ScenarioTable ==
    [k \in {AAAA, AAAAGG, TTTT} |->
        IF k = AAAA THEN 3 ELSE IF k = AAAAGG THEN 2 ELSE 5]

Tables == {ScenarioTable} \cup UNION {[K -> 0..MaxCount] : K \in KeySets}

ACGT == <<"A", "C", "G", "T">>
TGCA == <<"T", "G", "C", "A">>
ACGA == <<"A", "C", "G", "A">>

\* the bins and the sample of the concrete scenario:
\* bins {ACGT: 0, TGCA: 0}, sample {ACGA: 4}
ScenarioBins == [k \in {ACGT, TGCA} |-> 0]
ScenarioSample == [k \in {ACGA} |-> 4]

\* get_seq_bins: every bin is seeded with 0
BinTables == {ScenarioBins} \cup {[k \in K |-> 0] : K \in KeySets}

SampleTables ==
    {ScenarioSample} \cup
    UNION {[K -> 0..MaxCount] : K \in {S \in KeySets : Cardinality(S) <= MaxSamples}}

\* Counter.__getitem__ / __missing__
Get(c, k) == IF k \in DOMAIN c THEN c[k] ELSE 0

\* Counter.__setitem__
Set(c, k, x) == [y \in DOMAIN c \cup {k} |-> IF y = k THEN x ELSE c[y]]

RECURSIVE SumOver(_, _)
SumOver(c, K) ==
    IF K = {} THEN 0
    ELSE LET k == CHOOSE x \in K : TRUE IN c[k] + SumOver(c, K \ {k})

SumTable(c) == SumOver(c, DOMAIN c)

\* a return without the counter += Counter() line
KeepAll(c) == c

\* counter + Counter(): a new Counter holding only the positive counts
KeepPositive(c) == [k \in {x \in DOMAIN c : c[x] > 0} |-> c[k]]

\* a sort that lost reverse=True: shortest first
SortedByLenAscending(K) ==
    {p \in [1..Cardinality(K) -> K] :
        /\ \A a, b \in DOMAIN p : a # b => p[a] # p[b]
        /\ \A a, b \in DOMAIN p : a < b => Len(p[a]) <= Len(p[b])}

\* list(counter) followed by sort(key=len, reverse=True): the dict order is
\* arbitrary and the sort is stable, so any order with non-increasing lengths
SortedByLen(K) ==
    {p \in [1..Cardinality(K) -> K] :
        /\ \A a, b \in DOMAIN p : a # b => p[a] # p[b]
        /\ \A a, b \in DOMAIN p : a < b => Len(p[a]) >= Len(p[b])}

RECURSIVE SortAsc(_)
SortAsc(S) ==
    IF S = {} THEN <<>>
    ELSE LET m == CHOOSE x \in S : \A y \in S : x <= y
         IN <<m>> \o SortAsc(S \ {m})

\* sorted(set([len(k) for k in seqs]))
DefaultLengths(K) == SortAsc({Len(k) : k \in K})

chunker(it, l) == [j \in 1..(Len(it) + 1 - l) |-> SubSeq(it, j, j + l - 1)]

----------------------------------------------------------------------------
(* Trie entries: the value stored under a key is an int (a count) or a     *)
(* str (the sequence the window was cut from)                              *)

Canonical(c) == [isInt |-> TRUE, count |-> c, parent |-> <<>>]
SubsequenceOf(p) == [isInt |-> FALSE, count |-> 0, parent |-> p]

NoMatch == [k |-> <<>>, v |-> SubsequenceOf(<<>>), dist |-> 0]

EmptyTable == <<>>

\* an insertion that does not look for the key first
has_key_never(tr, k) == FALSE

has_key(tr, k) == k \in DOMAIN tr

Put(tr, k, e) == [x \in DOMAIN tr \cup {k} |-> IF x = k THEN e ELSE tr[x]]

----------------------------------------------------------------------------
(* Bio.trie.get_approximate(key, k): every key of the trie that matches    *)
(* with up to k mismatches, a mismatch being a substitution, an insertion  *)
(* or a deletion.  The same key can be reported several times, once per    *)
(* alignment, with that alignment's number of mismatches; the order of the *)
(* list is the library's.                                                  *)

\* the numbers of mismatches (at most k) of the alignments of a with b
RECURSIVE Dists(_, _, _)
Dists(a, b, k) ==
    IF k < 0 THEN {}
    ELSE IF a = <<>> /\ b = <<>> THEN {0}
    ELSE (IF a # <<>> /\ b # <<>>
          THEN IF Head(a) = Head(b)
               THEN Dists(Tail(a), Tail(b), k)
               ELSE {d + 1 : d \in Dists(Tail(a), Tail(b), k - 1)}
          ELSE {})
         \cup (IF a # <<>> THEN {d + 1 : d \in Dists(Tail(a), b, k - 1)} ELSE {})
         \cup (IF b # <<>> THEN {d + 1 : d \in Dists(a, Tail(b), k - 1)} ELSE {})

\* the elements (k, v, dist) that t.get_approximate(seq, k) can hold
get_approximate(tr, seq, k) ==
    UNION {{[k |-> key, v |-> tr[key], dist |-> d] : d \in Dists(seq, key, k)} :
           key \in DOMAIN tr}

----------------------------------------------------------------------------
(* construct_complex_trie(counter, lengths)                                *)

\* the table the index is built over
TrieSource == IF mode = "matrix" THEN bins ELSE counter

TrieSeq == tseqs[si]
TrieWindows == chunker(TrieSeq, lengths[li])
TrieSubseq == TrieWindows[ci]

TrieFrame == UNCHANGED <<mode, input, counter, bins, n, lengths,
                         tseqs, seqs, i, hits, seen, cur, mi, round>>

\* for l in lengths: exhausted, next seq
TrieSeqDone ==
    /\ pc = "trie" /\ si <= Len(tseqs) /\ li > Len(lengths)
    /\ si' = si + 1 /\ li' = 1 /\ ci' = 1
    /\ UNCHANGED <<pc, t>> /\ TrieFrame

\* if l > seq_len: continue
TrieLenSkip ==
    /\ pc = "trie" /\ si <= Len(tseqs) /\ li <= Len(lengths)
    /\ lengths[li] > Len(TrieSeq)
    /\ li' = li + 1 /\ ci' = 1
    /\ UNCHANGED <<pc, t, si>> /\ TrieFrame

\* for subseq in chunker(seq, l): exhausted, next length
TrieLenDone ==
    /\ pc = "trie" /\ si <= Len(tseqs) /\ li <= Len(lengths)
    /\ lengths[li] <= Len(TrieSeq)
    /\ ci > Len(TrieWindows)
    /\ li' = li + 1 /\ ci' = 1
    /\ UNCHANGED <<pc, t, si>> /\ TrieFrame

TrieAtWindow ==
    /\ pc = "trie" /\ si <= Len(tseqs) /\ li <= Len(lengths)
    /\ lengths[li] <= Len(TrieSeq)
    /\ ci <= Len(TrieWindows)

\* if t.has_key(subseq): continue
TrieHasKey ==
    /\ TrieAtWindow
    /\ has_key(t, TrieSubseq)
    /\ ci' = ci + 1
    /\ UNCHANGED <<pc, t, si, li>> /\ TrieFrame

\* if subseq == seq: t[seq] = counter[seq]
TrieCanonical ==
    /\ TrieAtWindow
    /\ ~has_key(t, TrieSubseq)
    /\ TrieSubseq = TrieSeq
    /\ t' = Put(t, TrieSeq, Canonical(Get(TrieSource, TrieSeq)))
    /\ ci' = ci + 1
    /\ UNCHANGED <<pc, si, li>> /\ TrieFrame

\* else: t[subseq] = seq
TrieSubsequence ==
    /\ TrieAtWindow
    /\ ~has_key(t, TrieSubseq)
    /\ TrieSubseq # TrieSeq
    /\ t' = Put(t, TrieSubseq, SubsequenceOf(TrieSeq))
    /\ ci' = ci + 1
    /\ UNCHANGED <<pc, si, li>> /\ TrieFrame

\* return t
TrieReturn ==
    /\ pc = "trie" /\ si > Len(tseqs)
    /\ pc' = "built"
    /\ UNCHANGED <<t, si, li, ci>> /\ TrieFrame

construct_complex_trie ==
    \/ TrieSeqDone \/ TrieLenSkip \/ TrieLenDone
    \/ TrieHasKey \/ TrieCanonical \/ TrieSubsequence \/ TrieReturn

\* the state in which construct_complex_trie(src) is called (lengths=None)
TrieCall(src) ==
    /\ pc = "trie" /\ t = EmptyTable
    /\ tseqs \in SortedByLen(DOMAIN src)
    /\ lengths = DefaultLengths(DOMAIN src)
    /\ si = 1 /\ li = 1 /\ ci = 1

----------------------------------------------------------------------------
(* process_similar(counter, t, n)                                          *)

CurSeq == seqs[i + 1]

\* a test of the distance alone
SelfMatchDistOnly(seq, k, dist) == dist = 0

\* if dist == 0 or k == seq: continue
SelfMatch(seq, k, dist) == dist = 0 \/ k = seq

\* the merge in the other direction: counter[k] += counter[seq]; counter[seq] = 0
MergeCanonicalIntoMatch(c, seq, k) ==
    LET c1 == Set(c, k, Get(c, k) + Get(c, seq)) IN Set(c1, seq, 0)

\* counter[seq] += counter[k]; counter[k] = 0
MergeCanonical(c, seq, k) ==
    LET c1 == Set(c, seq, Get(c, seq) + Get(c, k)) IN Set(c1, k, 0)

\* the merge in the other direction: counter[seq] += counter[v]; counter[v] = 0
MergeSubsequenceIntoSeq(c, seq, v) ==
    LET c1 == Set(c, seq, Get(c, seq) + Get(c, v)) IN Set(c1, v, 0)

\* counter[v] += counter[seq]; counter[seq] = 0
MergeSubsequence(c, seq, v) ==
    LET c1 == Set(c, v, Get(c, v) + Get(c, seq)) IN Set(c1, seq, 0)

ProcFrame == UNCHANGED <<mode, input, n, lengths, tseqs, t,
                         si, li, ci, mi, round>>

\* seqs = list(counter); seqs.sort(key=len, reverse=True): counter is the
\* dict the index was built from, unchanged since, so list(counter) is in the
\* order construct_complex_trie saw
SimilarEnter ==
    /\ pc = "built" /\ mode = "similar"
    /\ seqs' = tseqs
    /\ i' = 0 /\ pc' = "similar"
    /\ UNCHANGED <<counter, bins, hits, seen, cur>> /\ ProcFrame

\* if counter[seq] == 0: continue
SimilarZero ==
    /\ pc = "similar" /\ i < Len(seqs)
    /\ Get(counter, CurSeq) = 0
    /\ i' = i + 1
    /\ UNCHANGED <<pc, counter, bins, seqs, hits, seen, cur>> /\ ProcFrame

\* for (k, v, dist) in unique_everseen(t.get_approximate(seq, n), key): begins
SimilarQuery ==
    /\ pc = "similar" /\ i < Len(seqs)
    /\ Get(counter, CurSeq) # 0
    /\ hits' = get_approximate(t, CurSeq, n)
    /\ seen' = {} /\ cur' = NoMatch /\ pc' = "similar_for"
    /\ UNCHANGED <<counter, bins, seqs, i>> /\ ProcFrame

\* unique_everseen yields element m: its key was not seen before
Yield(m) ==
    /\ m.k \notin seen
    /\ seen' = seen \cup {m.k}
    /\ cur' = m

\* unique_everseen drops an element whose key was seen before
UniqueEverseenDrop ==
    /\ pc \in {"similar_for", "matrix_for"}
    /\ \E m \in hits : m.k \in seen
    /\ UNCHANGED vars

SimilarSelfMatch ==
    /\ pc = "similar_for"
    /\ \E m \in hits :
          /\ Yield(m)
          /\ SelfMatch(CurSeq, m.k, m.dist)
    /\ UNCHANGED <<pc, counter, bins, seqs, i, hits>> /\ ProcFrame

\* if type(v) is int
SimilarCanonical ==
    /\ pc = "similar_for"
    /\ \E m \in hits :
          /\ Yield(m)
          /\ ~SelfMatch(CurSeq, m.k, m.dist)
          /\ m.v.isInt
          /\ counter' = MergeCanonical(counter, CurSeq, m.k)
    /\ UNCHANGED <<pc, bins, seqs, i, hits>> /\ ProcFrame

\* else: k is a subsequence; therefore add seq to v
SimilarSubsequence ==
    /\ pc = "similar_for"
    /\ \E m \in hits :
          /\ Yield(m)
          /\ ~SelfMatch(CurSeq, m.k, m.dist)
          /\ ~m.v.isInt
          /\ counter' = MergeSubsequence(counter, CurSeq, m.v.parent)
    /\ UNCHANGED <<pc, bins, seqs, i, hits>> /\ ProcFrame

\* the list is exhausted: next seq
SimilarForDone ==
    /\ pc = "similar_for"
    /\ \A m \in hits : m.k \in seen
    /\ i' = i + 1 /\ pc' = "similar"
    /\ UNCHANGED <<counter, bins, seqs, hits, seen, cur>> /\ ProcFrame

\* counter += Counter(); return counter
SimilarReturn ==
    /\ pc = "similar" /\ i = Len(seqs)
    /\ counter' = KeepPositive(counter)
    /\ pc' = "done"
    /\ UNCHANGED <<bins, seqs, i, hits, seen, cur>> /\ ProcFrame

process_similar ==
    \/ SimilarEnter \/ SimilarZero \/ SimilarQuery \/ UniqueEverseenDrop
    \/ SimilarSelfMatch \/ SimilarCanonical \/ SimilarSubsequence
    \/ SimilarForDone \/ SimilarReturn

----------------------------------------------------------------------------
(* process_similar_matrix(bins, seqs, t, n): counter is the sample table   *)
(* (the parameter seqs), seqs the sorted list sample_seqs                  *)

\* bins[k] += seqs[seq]
AddToBin(b, k, c, seq) == Set(b, k, Get(b, k) + Get(c, seq))

\* a classifier that leaves the sample count as it is
KeepSample(c, seq) == c

\* seqs[seq] = 0
ZeroSample(c, seq) == Set(c, seq, 0)

\* sample_seqs = list(seqs); sample_seqs.sort(key=len, reverse=True)
MatrixEnter ==
    /\ pc = "built" /\ mode = "matrix"
    /\ seqs' \in SortedByLen(DOMAIN counter)
    /\ i' = 0 /\ pc' = "matrix"
    /\ UNCHANGED <<counter, bins, hits, seen, cur>> /\ ProcFrame

\* for (k, v, dist) in unique_everseen(t.get_approximate(seq, n), key): begins
MatrixQuery ==
    /\ pc = "matrix" /\ i < Len(seqs)
    /\ hits' = get_approximate(t, CurSeq, n)
    /\ seen' = {} /\ cur' = NoMatch /\ pc' = "matrix_for"
    /\ UNCHANGED <<counter, bins, seqs, i>> /\ ProcFrame

\* if type(v) is int: bins[k] += seqs[seq]; seqs[seq] = 0
MatrixCanonical ==
    /\ pc = "matrix_for"
    /\ \E m \in hits :
          /\ Yield(m)
          /\ m.v.isInt
          /\ bins' = AddToBin(bins, m.k, counter, CurSeq)
          /\ counter' = ZeroSample(counter, CurSeq)
    /\ UNCHANGED <<pc, seqs, i, hits>> /\ ProcFrame

\* else: bins[v] += seqs[seq]; seqs[seq] = 0
MatrixSubsequence ==
    /\ pc = "matrix_for"
    /\ \E m \in hits :
          /\ Yield(m)
          /\ ~m.v.isInt
          /\ bins' = AddToBin(bins, m.v.parent, counter, CurSeq)
          /\ counter' = ZeroSample(counter, CurSeq)
    /\ UNCHANGED <<pc, seqs, i, hits>> /\ ProcFrame

\* the list is exhausted: next seq
MatrixForDone ==
    /\ pc = "matrix_for"
    /\ \A m \in hits : m.k \in seen
    /\ i' = i + 1 /\ pc' = "matrix"
    /\ UNCHANGED <<counter, bins, seqs, hits, seen, cur>> /\ ProcFrame

\* return bins
MatrixReturn ==
    /\ pc = "matrix" /\ i = Len(seqs)
    /\ pc' = "done"
    /\ UNCHANGED <<counter, bins, seqs, i, hits, seen, cur>> /\ ProcFrame

process_similar_matrix ==
    \/ MatrixEnter \/ MatrixQuery \/ UniqueEverseenDrop
    \/ MatrixCanonical \/ MatrixSubsequence \/ MatrixForDone \/ MatrixReturn

----------------------------------------------------------------------------
(* Bio.triefind.find(string, trie): all the keys of the trie that match    *)
(* anywhere in the string, as (key, start, end), by start position and     *)
(* then by length                                                          *)

IsPrefix(p, k) == Len(p) <= Len(k) /\ SubSeq(k, 1, Len(p)) = p

has_prefix(tr, p) == \E k \in DOMAIN tr : IsPrefix(p, k)

\* match_all: the keys that are prefixes of string, from its j-th prefix on
RECURSIVE match_all(_, _, _)
match_all(string, tr, j) ==
    IF j > Len(string) THEN <<>>
    ELSE LET substr == SubSeq(string, 1, j) IN
         IF ~has_prefix(tr, substr) THEN <<>>
         ELSE (IF substr \in DOMAIN tr THEN <<substr>> ELSE <<>>)
              \o match_all(string, tr, j + 1)

RECURSIVE find(_, _, _)
find(string, tr, start) ==
    IF start > Len(string) THEN <<>>
    ELSE LET keys == match_all(SubSeq(string, start, Len(string)), tr, 1) IN
         [j \in 1..Len(keys) |->
             [key |-> keys[j], start |-> start - 1,
              end |-> start - 1 + Len(keys[j])]]
         \o find(string, tr, start + 1)

----------------------------------------------------------------------------
(* construct_simple_trie(counter) and process_exact_substring(counter, t)  *)

\* for seq, count in counter.iteritems(): t[seq] = count
construct_simple_trie ==
    /\ pc = "simple_trie"
    /\ t' = [k \in DOMAIN counter |-> Canonical(counter[k])]
    /\ pc' = "built"
    /\ UNCHANGED <<mode, input, counter, bins, n, lengths, tseqs, si, li, ci,
                   seqs, i, hits, seen, cur, mi, round>>

ExactFrame == UNCHANGED <<mode, input, bins, n, lengths, tseqs, t, si, li, ci,
                          seen, cur>>

\* a skip test that never skips
IsFullLengthNever(match, l) == FALSE

\* if len(match) == l: continue
IsFullLength(match, l) == Len(match) = l

\* a merge that leaves the matched key's count in place
MergeExactNoZero(c, seq, match) == Set(c, seq, Get(c, seq) + Get(c, match))

\* counter[seq] += counter[match]; counter[match] = 0
MergeExact(c, seq, match) ==
    LET c1 == Set(c, seq, Get(c, seq) + Get(c, match)) IN Set(c1, match, 0)

\* seqs = list(counter); seqs.sort(key=len, reverse=True)
ExactEnter ==
    /\ pc = "built" /\ mode = "exact"
    /\ seqs' \in SortedByLen(DOMAIN counter)
    /\ i' = 0 /\ pc' = "exact"
    /\ UNCHANGED <<counter, hits, mi, round>> /\ ExactFrame

\* for (match, start, end) in triefind.find(seq, t): begins
ExactFind ==
    /\ pc = "exact" /\ i < Len(seqs)
    /\ hits' = find(CurSeq, t, 1)
    /\ mi' = 1 /\ pc' = "exact_for"
    /\ UNCHANGED <<counter, seqs, i, round>> /\ ExactFrame

\* if len(match) == l: continue
ExactSelf ==
    /\ pc = "exact_for" /\ mi <= Len(hits)
    /\ IsFullLength(hits[mi].key, Len(CurSeq))
    /\ mi' = mi + 1
    /\ UNCHANGED <<pc, counter, seqs, i, hits, round>> /\ ExactFrame

ExactMerge ==
    /\ pc = "exact_for" /\ mi <= Len(hits)
    /\ ~IsFullLength(hits[mi].key, Len(CurSeq))
    /\ counter' = MergeExact(counter, CurSeq, hits[mi].key)
    /\ mi' = mi + 1
    /\ UNCHANGED <<pc, seqs, i, hits, round>> /\ ExactFrame

\* the list is exhausted: next seq
ExactForDone ==
    /\ pc = "exact_for" /\ mi > Len(hits)
    /\ i' = i + 1 /\ pc' = "exact"
    /\ UNCHANGED <<counter, seqs, hits, mi, round>> /\ ExactFrame

\* counter += Counter(); return counter
ExactReturn ==
    /\ pc = "exact" /\ i = Len(seqs)
    /\ counter' = KeepPositive(counter)
    /\ pc' = "returned"
    /\ UNCHANGED <<seqs, i, hits, mi, round>> /\ ExactFrame

\* the caller runs the collapser again on the table it returned
ExactAgain ==
    /\ pc = "returned" /\ round = 1
    /\ round' = 2 /\ pc' = "simple_trie"
    /\ UNCHANGED <<counter, seqs, i, hits, mi>> /\ ExactFrame

process_exact_substring ==
    \/ ExactEnter \/ ExactFind \/ ExactSelf \/ ExactMerge
    \/ ExactForDone \/ ExactReturn \/ ExactAgain

----------------------------------------------------------------------------
(* Specifications *)

Idle ==
    /\ seqs = <<>> /\ i = 0 /\ hits = {} /\ seen = {} /\ cur = NoMatch
    /\ mi = 1 /\ round = 1

\* t = construct_complex_trie(counter); process_similar(counter, t, n)
InitSimilar ==
    /\ mode = "similar"
    /\ input \in Tables
    /\ counter = input
    /\ bins = EmptyTable
    /\ n \in 0..MaxN
    /\ TrieCall(counter)
    /\ Idle

\* t = construct_complex_trie(bins); process_similar_matrix(bins, seqs, t, n)
InitMatrix ==
    /\ mode = "matrix"
    /\ input \in SampleTables
    /\ counter = input
    /\ bins \in BinTables
    /\ n \in 0..MaxN
    /\ TrieCall(bins)
    /\ Idle

\* t = construct_simple_trie(counter); process_exact_substring(counter, t)
InitExact ==
    /\ mode = "exact"
    /\ input \in Tables
    /\ counter = input
    /\ bins = EmptyTable
    /\ n = 0
    /\ pc = "simple_trie" /\ t = EmptyTable
    /\ tseqs = <<>> /\ lengths = <<>> /\ si = 1 /\ li = 1 /\ ci = 1
    /\ Idle

NextSimilar == construct_complex_trie \/ process_similar
NextMatrix == construct_complex_trie \/ process_similar_matrix
NextExact == construct_simple_trie \/ process_exact_substring

SpecSimilar == InitSimilar /\ [][NextSimilar]_vars
SpecMatrix == InitMatrix /\ [][NextMatrix]_vars
SpecExact == InitExact /\ [][NextExact]_vars

SpecIndex ==
    (InitSimilar \/ InitMatrix)
    /\ [][construct_complex_trie \/ process_similar \/ process_similar_matrix]_vars

Init == InitExact \/ InitSimilar
Next == NextExact \/ NextSimilar
Spec == Init /\ [][Next]_vars

----------------------------------------------------------------------------
(* Properties *)

\* s is a contiguous window of L
IsWindow(s, L) ==
    \E j \in 1..(Len(L) + 1 - Len(s)) : SubSeq(L, j, j + Len(s) - 1) = s

\* the key a match routes to: the matched key, or the parent of a window
Target(m) == IF m.v.isInt THEN m.k ELSE m.v.parent

\* this step handles a retained match (then held by cur') of the query for CurSeq
Handles == pc \in {"similar_for", "matrix_for"} /\ seen' # seen

\* every count of the input table is positive, as in a table of reads
PositiveInput == \A k \in DOMAIN input : input[k] > 0

\* C1: in process_similar the sum of all counts of the table is the same
\* after every merge step, and at the end, as before the call (stated here
\* for the tables whose counts are all positive).
C1_Conservation ==
    (mode = "similar" /\ PositiveInput) => SumTable(counter) = SumTable(input)

\* C1 is reached: a window of the querying sequence itself was accepted
C1_Reached ==
    /\ mode = "similar" /\ pc = "similar_for"
    /\ cur.k \in seen /\ ~cur.v.isInt /\ cur.v.parent = CurSeq

----------------------------------------------------------------------------
\* the first sequence, in the order of the sort, that is strictly longer than
\* s and holds s as a window
FirstHolder(s) ==
    tseqs[CHOOSE j \in DOMAIN tseqs :
            /\ Len(tseqs[j]) > Len(s) /\ IsWindow(s, tseqs[j])
            /\ \A h \in 1..(j - 1) :
                  ~(Len(tseqs[h]) > Len(s) /\ IsWindow(s, tseqs[h]))]

HasHolder(s) == \E L \in DOMAIN input : Len(L) > Len(s) /\ IsWindow(s, L)

\* C2 (as claimed): once construct_complex_trie has returned (default
\* lengths), every key of the table is in the index as a Canonical entry
\* carrying its own count; for {AAAA: 3, AAAAGG: 2, TTTT: 5} the entry of AAAA
\* is Canonical(3).
C2_OwnKeyCanonical ==
    (mode = "similar" /\ pc = "built") =>
        \A s \in DOMAIN input : s \in DOMAIN t /\ t[s] = Canonical(input[s])

\* C2 (amended): once construct_complex_trie has returned (default lengths),
\* every key of the table is a key of the index; it is a Canonical entry
\* carrying its own count exactly when no strictly longer key of the table
\* holds it as a contiguous window, and otherwise it is SubsequenceOf the
\* first such longer key in the order of the sort; for
\* {AAAA: 3, AAAAGG: 2, TTTT: 5} the entry of AAAA is SubsequenceOf(AAAAGG).
C2_CanonicalUnlessWindow ==
    (mode = "similar" /\ pc = "built") =>
        /\ \A s \in DOMAIN input :
              /\ s \in DOMAIN t
              /\ t[s] = IF HasHolder(s) THEN SubsequenceOf(FirstHolder(s))
                        ELSE Canonical(input[s])
        /\ input = ScenarioTable =>
              /\ t[AAAA] = SubsequenceOf(AAAAGG)
              /\ t[AAAAGG] = Canonical(2)
              /\ t[TTTT] = Canonical(5)

C2_Reached ==
    /\ mode = "similar" /\ pc = "built" /\ input = ScenarioTable
    /\ AAAA \in DOMAIN t /\ ~t[AAAA].isInt

----------------------------------------------------------------------------
\* this step of process_similar handles an accepted Canonical match
AcceptsCanonical ==
    /\ pc = "similar_for" /\ seen' # seen
    /\ ~(cur'.dist = 0 \/ cur'.k = CurSeq)
    /\ cur'.v.isInt

\* C3 (as claimed): an accepted Canonical match for key K adds X's count to
\* K's count and sets X's count to 0; K's count does not decrease (stated
\* here for the tables whose counts are all positive).
C3_MergeIntoMatched ==
    [][(AcceptsCanonical /\ PositiveInput) =>
          /\ counter' = [counter EXCEPT ![cur'.k] = counter[cur'.k] + counter[CurSeq],
                                        ![CurSeq] = 0]
          /\ counter'[cur'.k] >= counter[cur'.k]]_vars

\* C3 (amended): an accepted Canonical match for key K adds K's count to X's
\* count and sets K's count to 0, changing no other count; X's count does not
\* decrease.
C3_MergeIntoQuerying ==
    [][AcceptsCanonical =>
          /\ cur'.k \in DOMAIN counter /\ cur'.k # CurSeq
          /\ counter' = [counter EXCEPT ![CurSeq] = counter[CurSeq] + counter[cur'.k],
                                        ![cur'.k] = 0]
          /\ counter'[CurSeq] >= counter[CurSeq]]_vars

C3_Reached ==
    /\ mode = "similar" /\ pc = "similar_for"
    /\ cur.k \in seen /\ cur.v.isInt /\ cur.k # CurSeq /\ cur.dist # 0
    /\ counter[cur.k] = 0 /\ counter[CurSeq] > input[CurSeq]

----------------------------------------------------------------------------
\* an accepted match of the current query was handled before this step: a
\* yielded key other than the querying sequence (its distance is not 0)
AcceptedBefore == pc = "similar_for" /\ \E k \in seen : k # CurSeq

\* C4 (as claimed): once the first accepted match of X's result list has been
\* applied, no later step of X's iteration changes any count, and X's count
\* stays 0 (stated here for the tables whose counts are all positive).
C4_FirstMatchOnly ==
    [][(AcceptedBefore /\ PositiveInput) =>
          (counter' = counter /\ counter'[CurSeq] = 0)]_vars

\* this step of process_similar handles an accepted SubsequenceOf match
AcceptsSubsequence ==
    /\ pc = "similar_for" /\ seen' # seen
    /\ ~(cur'.dist = 0 \/ cur'.k = CurSeq)
    /\ ~cur'.v.isInt

\* C4 (amended): an accepted SubsequenceOf match leaves X's count at 0, and
\* one handled while X's count is 0 changes no count in the table; an accepted
\* Canonical match moves K's count into X whenever it is handled, so only
\* Canonical matches can change counts once X's count is 0.
C4_SubsequenceAfterZero ==
    [][/\ AcceptsSubsequence =>
             /\ counter'[CurSeq] = 0
             /\ counter[CurSeq] = 0 => counter' = counter
       /\ (pc = "similar_for" /\ counter[CurSeq] = 0 /\ counter' # counter) =>
             AcceptsCanonical]_vars

C4_Reached ==
    /\ mode = "similar" /\ pc = "similar_for"
    /\ counter[CurSeq] = 0
    /\ cur.k \in seen /\ ~cur.v.isInt /\ cur.k # CurSeq
    /\ Cardinality({k \in seen : k # CurSeq /\ ~t[k].isInt}) >= 2

----------------------------------------------------------------------------
\* the bins the matches of sample sequence s route to
Targets(s) == {Target(m) : m \in get_approximate(t, s, n)}

\* the sum of the original counts of the sequences of S that f sends to bin b
Routed(f, S, b) ==
    LET R == {s \in S : f[s] = b} IN
    SumOver([s \in R |-> input[s]], R)

\* C5 (as claimed): after process_similar_matrix, every sequence of the sample
\* table has count 0 and exactly one bin has received its original count
\* (stated here for a sample whose counts are all positive and at least one
\* bin).
C5_SingleDestination ==
    (mode = "matrix" /\ pc = "done" /\ PositiveInput /\ DOMAIN bins # {}) =>
        /\ \A s \in DOMAIN input : counter[s] = 0
        /\ \E f \in [DOMAIN input -> DOMAIN bins] :
              \A b \in DOMAIN bins : bins[b] = Routed(f, DOMAIN input, b)

C5_Final ==
    (mode = "matrix" /\ pc = "done") =>
        LET M == {s \in DOMAIN input : get_approximate(t, s, n) # {}} IN
        /\ \A s \in M : counter[s] = 0
        /\ \A s \in DOMAIN input \ M : counter[s] = input[s]
        /\ \E f \in [M -> DOMAIN bins] :
              /\ \A s \in M : f[s] \in Targets(s)
              /\ \A b \in DOMAIN bins : bins[b] = Routed(f, M, b)

C5_Step ==
    (mode = "matrix" /\ Handles) =>
        /\ Target(cur') \in DOMAIN bins
        /\ bins' = [bins EXCEPT ![Target(cur')] = bins[Target(cur')] + counter[CurSeq]]
        /\ counter' = [counter EXCEPT ![CurSeq] = 0]
        /\ seen # {} => bins' = bins

\* C5 (amended): every retained match of a sample sequence adds the
\* sequence's current count to the match's bin (the matched key if Canonical,
\* the parent if SubsequenceOf) and sets the sequence's count to 0, so only
\* the first match moves mass; after process_similar_matrix, a sequence with
\* a non-empty result list has count 0 and exactly one bin has received its
\* original count, and a sequence with an empty result list keeps its count
\* and adds to no bin.
C5_RoutesFirstMatch == [](C5_Final) /\ [][C5_Step]_vars

C5_Reached ==
    /\ mode = "matrix" /\ pc = "done" /\ input = ScenarioSample
    /\ bins = [k \in {ACGT, TGCA} |-> IF k = ACGT THEN 4 ELSE 0]
    /\ counter[ACGA] = 0

----------------------------------------------------------------------------
\* C6: the run of process_exact_substring on the table its first run
\* returned, with a trie rebuilt from that table, changes no count.
C6_Idempotent == [][(mode = "exact" /\ round = 2) => counter' = counter]_vars

C6_Reached ==
    /\ mode = "exact" /\ round = 2 /\ pc = "returned"
    /\ DOMAIN counter # {} /\ DOMAIN counter # DOMAIN input

----------------------------------------------------------------------------
Returned == pc \in {"done", "returned"}

\* C7 (as claimed): the table returned by process_exact_substring and by
\* process_similar has the key set of the input table; the exact collapse of
\* {AAAA: 3, AAAAGG: 2, TTTT: 5} returns AAAA with count 0 (stated here for
\* the tables whose counts are all positive).
C7_SameKeySet ==
    (Returned /\ round = 1 /\ PositiveInput) =>
        /\ DOMAIN counter = DOMAIN input
        /\ (mode = "exact" /\ input = ScenarioTable) =>
              (AAAA \in DOMAIN counter /\ counter[AAAA] = 0)

C7_State ==
    /\ (~Returned /\ round = 1) => DOMAIN counter = DOMAIN input
    /\ Returned =>
          /\ DOMAIN counter \subseteq DOMAIN input
          /\ \A k \in DOMAIN counter : counter[k] > 0
    /\ (Returned /\ mode = "exact" /\ input = ScenarioTable) =>
          counter = [k \in {AAAAGG, TTTT} |-> 5]

C7_Step ==
    (~Returned /\ Returned') =>
        \A k \in DOMAIN counter :
            IF counter[k] > 0
            THEN k \in DOMAIN counter' /\ counter'[k] = counter[k]
            ELSE k \notin DOMAIN counter'

\* C7 (amended): while process_exact_substring or process_similar runs, the
\* table keeps the key set of the input, a merged-away key staying with count
\* 0; the table returned holds exactly the keys whose count is positive at
\* the end, with that count, and no key of count 0 (the exact collapse of
\* {AAAA: 3, AAAAGG: 2, TTTT: 5} returns {AAAAGG: 5, TTTT: 5}).
C7_ZeroKeysDropped == [](C7_State) /\ [][C7_Step]_vars

C7_Reached ==
    /\ mode = "exact" /\ round = 1 /\ pc = "returned" /\ input = ScenarioTable
    /\ DOMAIN counter = {AAAAGG, TTTT}

----------------------------------------------------------------------------
\* C8: in process_similar, handling a retained match with dist == 0 or with
\* the matched key equal to the querying sequence changes no count.
C8_SelfMatchExclusion ==
    [][(pc = "similar_for" /\ seen' # seen
        /\ (cur'.dist = 0 \/ cur'.k = CurSeq)) => counter' = counter]_vars

C8_Reached ==
    /\ mode = "similar" /\ pc = "similar_for"
    /\ cur.k \in seen /\ cur.k = CurSeq /\ cur.dist > 0 /\ cur.v.isInt
    /\ counter[CurSeq] > 0

----------------------------------------------------------------------------
C9_State ==
    mode = "exact" =>
        /\ SumTable(counter) = SumTable(input)
        /\ (input = ScenarioTable /\ pc = "returned") =>
              /\ Get(counter, AAAAGG) = 5 /\ Get(counter, TTTT) = 5
              /\ SumTable(counter) = 10

C9_Step ==
    (pc = "exact_for" /\ mi' = mi + 1) =>
        LET M == hits[mi].key
            S == CurSeq
        IN IF Len(M) = Len(S) THEN counter' = counter
           ELSE /\ Len(M) < Len(S) /\ IsWindow(M, S)
                /\ M \in DOMAIN counter
                /\ counter' = [counter EXCEPT ![S] = counter[S] + counter[M],
                                              ![M] = 0]

\* C9: with the trie built from the same table, every merge step of
\* process_exact_substring moves the whole count of a matched key M into the
\* sequence S, M a strictly shorter contiguous substring of S, a match of S's
\* own length being skipped; the sum of the counts is the same after every
\* step and at the end; {AAAA: 3, AAAAGG: 2, TTTT: 5} gives AAAAGG 5 and
\* TTTT 5, sum 10.
C9_ExactConservation == [](C9_State) /\ [][C9_Step]_vars

C9_Reached ==
    /\ mode = "exact" /\ round = 1 /\ pc = "exact_for" /\ mi > 1
    /\ Len(hits[mi - 1].key) < Len(CurSeq)
    /\ counter[CurSeq] > input[CurSeq]

----------------------------------------------------------------------------
\* the keys of the table the index was built from
IndexedKeys == IF mode = "matrix" THEN DOMAIN bins ELSE DOMAIN input

C10_State ==
    \A k \in DOMAIN t :
        IF t[k].isInt
        THEN /\ k \in IndexedKeys
             /\ t[k].count = IF mode = "matrix" THEN 0 ELSE input[k]
        ELSE /\ t[k].parent \in IndexedKeys
             /\ Len(k) < Len(t[k].parent)
             /\ IsWindow(k, t[k].parent)

C10_Step ==
    /\ \A k \in DOMAIN t : k \in DOMAIN t' /\ t'[k] = t[k]
    /\ Handles => Target(cur') \in DOMAIN TrieSource
    /\ DOMAIN bins' = DOMAIN bins
    /\ DOMAIN counter' \subseteq DOMAIN counter

\* C10: after every insertion step of construct_complex_trie no key of the
\* index has been overwritten, and every entry is either a key of the table
\* with that key's count or a strictly shorter contiguous window of a key of
\* the table, with that key as its value; every merge target of
\* process_similar and process_similar_matrix is a key of the table the index
\* was built from, and no key is ever added to a table.
C10_IndexWellFormed == [](C10_State) /\ [][C10_Step]_vars

C10_Reached ==
    /\ mode = "matrix" /\ pc = "matrix_for"
    /\ cur.k \in seen /\ ~cur.v.isInt
    /\ bins[cur.v.parent] > 0

====
